---- MODULE Spec2Model ----
(***************************************************************************)
(* Model of litex/soc/cores/pdm.py: the PDM (Pulse Density Modulation)     *)
(* core.  A constructor call validates its arguments and elaborates the   *)
(* registers; afterwards the only run-time behaviour is the clocked       *)
(* process of the comparator domain (counter increment, comparison of the *)
(* bit-reversed counter with the duty value, MultiReg shift), interleaved *)
(* with what the surrounding design does to the signals it owns (direct   *)
(* duty writes, an external counter, CSR writes).                         *)
(*                                                                         *)
(* Every register starts at its Signal reset value: that is the value a   *)
(* migen Signal has after power-on, reset_less ones included.             *)
(***************************************************************************)
EXTENDS Integers, Sequences, FiniteSets

VARIABLES
    phase,      \* "new": before PDM(...) runs; "built"; "failed": it raised
    args,       \* the arguments of the constructor call (gone once it returned)
    err,        \* the message of the ValueError raised, "" when none
    sameDomain, \* the CSR bus clock is the comparator's clock (no ClockDomainsRenamer)
    bits,       \* width of duty
    mode,       \* "direct": self.duty register; "external": duty signal supplied;
                \* "csr": self._duty CSRStorage feeding self._duty_csr
    owned,      \* the generator created the counter (counter is None)
    nbits,      \* counter.nbits
    counter,    \* value of self.counter
    duty,       \* value of the duty Signal of "direct" and "external" mode
    storage,    \* value of self._duty.storage ("csr" mode)
    prev,       \* value storage held before a write the comparator clock has not
                \* sampled yet (= storage when there is none)
    regs,       \* the registers of the MultiReg, regs[1] nearest to storage
    out,        \* value of the out Signal
    win,        \* history: the outputs of the latest cycles, at most 2^bits of them,
                \* kept while an owned counter runs with a duty register never written
    quiet,      \* history: the comparator read duty 0 at every clock edge so far
    age,        \* history: comparator ticks since storage took its value (capped)
    old,        \* history: the duty the comparator saw when storage was written, if
                \* the previous value had reached it (-1 otherwise, and from age 2 on)
    held        \* history: the values storage has held since reset (recorded in
                \* SpecHeld only; NotRecorded in Spec)

vars == <<phase, args, err, sameDomain, bits, mode, owned, nbits, counter, duty,
          storage, prev, regs, out, win, quiet, age, old, held>>

(* Widths explored for a duty register or signal without / with the CSR. *)
MaxBits == 3
MaxCsrBits == 2

----------------------------------------------------------------------------
(* Values of the constructor's arguments. *)

(* v: the width of a Signal, the value of an int. *)
None == [kind |-> "None", v |-> 0]
PyInt(k) == [kind |-> "int", v |-> k]
Signal(w) == [kind |-> "Signal", v |-> w]

isSignal(x) == x.kind = "Signal"

Pow2(k) == 2 ^ k
Range(w) == 0 .. (Pow2(w) - 1)
Bit(v, i) == (v \div Pow2(i)) % 2

RECURSIVE Cat(_)
(* migen Cat: the first element is the least significant bit. *)
Cat(s) == IF s = <<>> THEN 0 ELSE Head(s) + 2 * Cat(Tail(s))

(* Faulty variant of SliceStart: the slice written counter[bits-2::-1]. *)
SliceStartShort(b, len) ==
    LET start == b - 2
    IN  IF start < 0
        THEN (IF start + len < 0 THEN -1 ELSE start + len)
        ELSE (IF start >= len THEN len - 1 ELSE start)

(* Faulty variant of SliceStart: the whole counter reversed, counter[::-1]. *)
SliceStartWhole(b, len) == len - 1

(* slice(b - 1, None, -1).indices(len)[0]: where counter[bits-1::-1] starts. *)
SliceStart(b, len) ==
    LET start == b - 1
    IN  IF start < 0
        THEN (IF start + len < 0 THEN -1 ELSE start + len)
        ELSE (IF start >= len THEN len - 1 ELSE start)

(* Faulty variant of Reversed: the slice taken in counting order, counter[0:bits]. *)
NotReversed(c, b, len) == c % Pow2(b)

(* self.counter[bits-1::-1]: Cat(counter[i] for i in range(start, -1, -1)). *)
Reversed(c, b, len) ==
    LET start == SliceStart(b, len)
    IN  Cat([k \in 1 .. (start + 1) |-> Bit(c, start - (k - 1))])

(* Faulty variants of Less: <= for <, and the operands swapped. *)
LessOrEqual(rev, d) == rev <= d
LessSwapped(rev, d) == d < rev

(* The condition of the If: reversed counter < duty, both unsigned. *)
Less(rev, d) == rev < d

(* Faulty variant of Output: the comparator fed with the incremented counter. *)
OutputAhead(c, d, b, len) ==
    IF Less(Reversed((c + 1) % Pow2(len), b, len), d) THEN 1 ELSE 0

(* If(self.counter[bits-1::-1] < duty, out.eq(1)).Else(out.eq(0)): the value the
   clocked process drives to out from counter c (len bits wide) and duty d. *)
Output(c, d, b, len) == IF Less(Reversed(c, b, len), d) THEN 1 ELSE 0

(* Faulty variants of CounterNext: a step of 2, and a counter one bit too wide. *)
CounterNextSkip(c, w) == (c + 2) % Pow2(w)
CounterNextWide(c, w) == (c + 1) % Pow2(w + 1)

(* counter.eq(counter + 1) on a Signal of w bits. *)
CounterNext(c, w) == (c + 1) % Pow2(w)

(* Faulty variant of CounterAtEdge: the increment added for a supplied counter too. *)
CounterAlwaysNext(c, own, w) == CounterNext(c, w)

(* The counter after a clock edge: self.sync += counter.eq(counter + 1) is added
   only in the counter is None branch; a supplied counter is only read. *)
CounterAtEdge(c, own, w) == IF own THEN CounterNext(c, w) ELSE c

----------------------------------------------------------------------------
(* Construction. *)

NoArgs == [bits_or_duty |-> None, default_duty |-> 0, counter |-> None,
           with_csr |-> FALSE]

ErrDefaultDuty == "default_duty can not be set when external duty is supplied"
ErrWithCsr == "with_csr can not be set when external duty is supplied"
ErrNotSignal == "counter must be a Signal"
ErrNbits == "counter nbits < bits"

(* Faulty variant of DutyError: the with_csr check left out. *)
DutyErrorNoCsrCheck(a) ==
    IF isSignal(a.bits_or_duty) /\ a.default_duty # 0 THEN ErrDefaultDuty ELSE ""

(* The checks of the isinstance(bits_or_duty, Signal) branch, in order. *)
DutyError(a) ==
    IF isSignal(a.bits_or_duty)
    THEN IF a.default_duty # 0 THEN ErrDefaultDuty
         ELSE IF a.with_csr THEN ErrWithCsr
         ELSE ""
    ELSE ""

(* bits = bits_or_duty.nbits, or bits = bits_or_duty. *)
BitsOf(a) == a.bits_or_duty.v

(* Faulty variant of CounterError: counter.nbits <= bits rejected. *)
CounterErrorStrict(a, b) ==
    IF a.counter = None THEN ""
    ELSE IF ~isSignal(a.counter) THEN ErrNotSignal
    ELSE IF a.counter.v <= b THEN ErrNbits
    ELSE ""

(* The elif chain on counter. *)
CounterError(a, b) ==
    IF a.counter = None THEN ""
    ELSE IF ~isSignal(a.counter) THEN ErrNotSignal
    ELSE IF a.counter.v < b THEN ErrNbits
    ELSE ""

(* getattr(self.sync, "clock_domains"): _ModuleSync.__getattr__(name) returns the
   proxy _ModuleSyncCD(module, name) of the clock domain called name. *)
SyncGetattr(name) == [kind |-> "_ModuleSyncCD", v |-> name]
PyStr(s) == [kind |-> "str", v |-> s]

(* n = 0 if getattr(self.sync, "clock_domains") == "sys" else 2 *)
n == IF SyncGetattr("clock_domains") = PyStr("sys") THEN 0 ELSE 2

(* MultiReg(i, o, n=n): n registers of reset value 0 (MultiReg's default reset). *)
MultiRegReset == [i \in 1 .. n |-> 0]

(* Faulty variant of MultiRegShift: every register loads the input. *)
MultiRegLoadAll(r, src) == [i \in 1 .. Len(r) |-> src]

(* sd += reg.eq(src); src = reg, for each register: one clock edge. *)
MultiRegShift(r, src) == [i \in 1 .. Len(r) |-> IF i = 1 THEN src ELSE r[i - 1]]

(* self.comb += o.eq(src): the output is the last register, or the input. *)
MultiRegOut(r, src) == IF Len(r) = 0 THEN src ELSE r[Len(r)]

(* Faulty variant of ModeOf: with_csr ignored, add_csr never called. *)
ModeOfNoCsr(a) == IF isSignal(a.bits_or_duty) THEN "external" ELSE "direct"

(* Where the duty comes from: the supplied signal; or the register self.duty, which
   add_csr takes away (self.duty = None) and drives from the CSR when with_csr. *)
ModeOf(a) ==
    IF isSignal(a.bits_or_duty) THEN "external"
    ELSE IF a.with_csr THEN "csr" ELSE "direct"

AgeCap == n + 1

(* The value of held while the history of storage is not recorded. *)
NotRecorded == {-1}

Construct ==
    /\ phase = "new"
    /\ LET a  == args
           e1 == DutyError(a)
           b  == BitsOf(a)
           e2 == CounterError(a, b)
           m  == ModeOf(a)
       IN  IF e1 # "" \/ e2 # ""
           THEN /\ phase' = "failed"
                /\ err' = (IF e1 # "" THEN e1 ELSE e2)
                /\ UNCHANGED <<args, sameDomain, bits, mode, owned, nbits, counter,
                               duty, storage, prev, regs, out, win, quiet, age, old, held>>
           ELSE /\ phase' = "built"
                /\ args' = NoArgs
                /\ bits' = b
                /\ mode' = m
                /\ owned' = (a.counter = None)
                /\ nbits' = (IF a.counter = None THEN b ELSE a.counter.v)
                /\ counter' = 0
                /\ duty' = (IF m = "direct" THEN a.default_duty ELSE 0)
                /\ storage' = (IF m = "csr" THEN a.default_duty ELSE 0)
                /\ prev' = storage'
                /\ regs' = (IF m = "csr" THEN MultiRegReset ELSE <<>>)
                /\ out' = 0
                /\ win' = (IF a.counter = None /\ m = "direct" THEN <<0>> ELSE <<>>)
                /\ quiet' = TRUE
                /\ age' = 0
                /\ old' = -1
                /\ held' = (IF held = NotRecorded THEN held
                            ELSE IF m = "csr" THEN {a.default_duty} ELSE {})
                /\ UNCHANGED <<err, sameDomain>>

----------------------------------------------------------------------------
(* Run time. *)

(* The duty the comparator reads: the local `duty` of __init__, which in "csr"
   mode is self._duty_csr, the output of the MultiReg. *)
DutySignal == IF mode = "csr" THEN MultiRegOut(regs, storage) ELSE duty

(* The values whose every bit is the bit of x or the bit of y. *)
Mix(x, y, w) == {m \in Range(w) : \A i \in 0 .. (w - 1) : Bit(m, i) \in {Bit(x, i), Bit(y, i)}}

(* What the first register of the MultiReg can capture at a clock edge: storage.
   When the bus clock is another clock and storage changed since the previous
   edge, the change may fall in the register's setup/hold window: each bit is
   then captured before or after its change (the reason for the MultiReg). *)
Sampled == IF sameDomain THEN {storage} ELSE Mix(prev, storage, bits)

Min(x, y) == IF x < y THEN x ELSE y

LastN(s, k) == IF Len(s) <= k THEN s ELSE SubSeq(s, Len(s) - k + 1, Len(s))

(* One clock edge of the comparator's domain (self.sync and the MultiReg). *)
Tick ==
    /\ phase = "built"
    /\ counter' = CounterAtEdge(counter, owned, nbits)
    /\ out' = Output(counter, DutySignal, bits, nbits)
    /\ \E s \in Sampled : regs' = MultiRegShift(regs, s)
    /\ prev' = storage
    /\ win' = (IF win = <<>> THEN <<>> ELSE LastN(Append(win, out'), Pow2(bits)))
    /\ quiet' = (quiet /\ DutySignal = 0)
    /\ age' = Min(age + 1, AgeCap)
    /\ old' = (IF age' >= 2 THEN -1 ELSE old)
    /\ UNCHANGED <<phase, args, err, sameDomain, bits, mode, owned, nbits, duty, storage,
                   held>>

(* The surrounding design drives the duty Signal (self.duty of "direct" mode, the
   supplied signal of "external" mode) to another value. *)
WriteDuty ==
    /\ phase = "built"
    /\ mode \in {"direct", "external"}
    /\ \E v \in Range(bits) \ {duty} : duty' = v
    /\ win' = <<>>
    /\ UNCHANGED <<phase, args, err, sameDomain, bits, mode, owned, nbits, counter,
                   storage, prev, regs, out, quiet, age, old, held>>

(* The owner of a supplied counter drives it to another value. *)
ExtCounter ==
    /\ phase = "built"
    /\ ~owned
    /\ \E v \in Range(nbits) \ {counter} : counter' = v
    /\ UNCHANGED <<phase, args, err, sameDomain, bits, mode, owned, nbits, duty,
                   storage, prev, regs, out, win, quiet, age, old, held>>

(* A bus write of another value to the CSRStorage self._duty. *)
CsrWrite ==
    /\ phase = "built"
    /\ mode = "csr"
    /\ \E v \in Range(bits) \ {storage} :
          /\ storage' = v
          /\ prev' = (IF sameDomain THEN v ELSE storage)
          /\ held' = (IF held = NotRecorded THEN held ELSE held \cup {v})
    /\ age' = 0
    /\ old' = (IF prev = storage /\ \A i \in 1 .. Len(regs) : regs[i] = storage
               THEN storage ELSE -1)
    /\ UNCHANGED <<phase, args, err, sameDomain, bits, mode, owned, nbits, counter,
                   duty, regs, out, win, quiet>>

----------------------------------------------------------------------------

(* Widths of a supplied counter: below, equal to and above bits. *)
CounterWidths(b) == {w \in {b - 1, b, b + 1} : w >= 1}

ArgSets ==
    {a \in [bits_or_duty : {PyInt(b) : b \in 1 .. MaxBits} \cup {Signal(w) : w \in 1 .. MaxBits},
            default_duty : Range(MaxBits),
            counter : {None, PyInt(0)} \cup {Signal(w) : w \in 1 .. (MaxBits + 1)},
            with_csr : BOOLEAN] :
        /\ a.default_duty \in Range(a.bits_or_duty.v)
        /\ isSignal(a.counter) => a.counter.v \in CounterWidths(a.bits_or_duty.v)
        /\ a.with_csr => a.bits_or_duty.v <= MaxCsrBits}

(* Before the constructor call: its arguments, and whether the design leaves the
   module in the clock domain of the CSR bus (which only matters with a CSR). *)
InitWith(h) ==
    /\ phase = "new"
    /\ args \in ArgSets
    /\ err = ""
    /\ sameDomain \in BOOLEAN
    /\ (args.with_csr /\ ~isSignal(args.bits_or_duty)) \/ sameDomain
    /\ bits = 0
    /\ mode = "none"
    /\ owned = FALSE
    /\ nbits = 0
    /\ counter = 0
    /\ duty = 0
    /\ storage = 0
    /\ prev = 0
    /\ regs = <<>>
    /\ out = 0
    /\ win = <<>>
    /\ quiet = TRUE
    /\ age = 0
    /\ old = -1
    /\ held = h

Init == InitWith(NotRecorded)

Next == Construct \/ Tick \/ WriteDuty \/ ExtCounter \/ CsrWrite

Spec == Init /\ [][Next]_vars

(* The same program, with the values storage has held recorded in held. *)
InitHeld == InitWith({})
SpecHeld == InitHeld /\ [][Next]_vars

----------------------------------------------------------------------------
(* Properties. *)

(* bitreverse(c, w): the value whose bit i is bit w-1-i of c. *)
IsBitReverse(r, c, w) == \A i \in 0 .. (w - 1) : Bit(r, i) = Bit(c, w - 1 - i)
BitReverse(c, w) == CHOOSE r \in Range(w) : IsBitReverse(r, c, w)

RECURSIVE SeqSum(_)
SeqSum(s) == IF s = <<>> THEN 0 ELSE Head(s) + SeqSum(Tail(s))

Built == phase = "built"

(* C1: at every clock edge taken with the counter at c < 2^bits and the duty at d,
   the value driven to out is 1 if and only if bitreverse(c, bits) < d; with
   bits = 3 and d = 3 the outputs for c = 0..7 are 1,0,1,0,1,0,0,0. *)
C1_OutputIsReversedLess ==
    [][(Tick /\ counter < Pow2(bits)) =>
          /\ out' \in {0, 1}
          /\ out' = 1 <=> BitReverse(counter, bits) < DutySignal
          /\ (bits = 3 /\ DutySignal = 3) => out' = <<1, 0, 1, 0, 1, 0, 0, 0>>[counter + 1]]_vars

(* The outputs of one period of a 3-bit generator of duty 3. *)
C1_Witness ==
    /\ Built /\ bits = 3 /\ mode = "direct" /\ duty = 3 /\ counter = 0
    /\ win = <<1, 0, 1, 0, 1, 0, 0, 0>>

(* C2: for every duty d in [0, 2^bits), exactly d of the counter values in
   [0, 2^bits) make the comparator drive 1. *)
C2_DensityIsDuty ==
    Built => \A d \in Range(bits) :
                Cardinality({c \in Range(bits) : Output(c, d, bits, nbits) = 1}) = d

(* A 3-bit generator of duty 5 that has run a whole period. *)
C2_Witness ==
    Built /\ bits = 3 /\ duty = 5 /\ Len(win) = 8 /\ SeqSum(win) = 5

(* C3: with an owned counter and a duty register that holds d from reset on, every
   window of 2^bits consecutive cycles of out, the one that begins at the reset
   state included, has out asserted in exactly d cycles. *)
C3_WindowDensity ==
    (Built /\ Len(win) = Pow2(bits)) => SeqSum(win) = duty

(* The window that begins at the reset state (out = 0, counter = 0) is complete. *)
C3_Witness ==
    /\ Built /\ owned /\ mode = "direct" /\ duty = Pow2(bits) - 1 /\ bits = 2
    /\ Len(win) = Pow2(bits) /\ counter = Pow2(bits) - 1 /\ win[1] = 0

(* C4: while the comparator has read duty 0 at every clock edge, out is 0. *)
C4_DutyZeroSilent == (Built /\ quiet) => out = 0

(* Duty 0 throughout, clock edges taken, a supplied counter away from 0. *)
C4_Witness ==
    Built /\ quiet /\ age = AgeCap /\ ~owned /\ counter = Pow2(nbits) - 1 /\ out = 0

(* C5: with duty 2^bits - 1 the comparator drives 1 for every counter value in
   [0, 2^bits) but 2^bits - 1, so a period of out has exactly one cycle at 0. *)
C5_MaxDuty ==
    Built =>
       /\ \A c \in Range(bits) :
             Output(c, Pow2(bits) - 1, bits, nbits) = (IF c = Pow2(bits) - 1 THEN 0 ELSE 1)
       /\ (Len(win) = Pow2(bits) /\ duty = Pow2(bits) - 1) =>
             Cardinality({k \in 1 .. Len(win) : win[k] = 0}) = 1

(* A 3-bit generator of duty 7 just after the counter value 7 was compared. *)
C5_Witness ==
    Built /\ bits = 3 /\ duty = 7 /\ Len(win) = 8 /\ counter = 0 /\ out = 0

(* C6: a counter the generator owns is bits wide (the width of the duty signal when
   one is supplied), is 0 at reset, becomes (counter + 1) mod 2^bits at every
   clock edge (0 after 2^bits - 1), and stays in [0, 2^bits). *)
C6_OwnedCounter ==
    /\ []((Built /\ owned) => (nbits = bits /\ counter \in Range(bits)))
    /\ [][/\ (phase = "new" /\ phase' = "built" /\ owned') =>
                (counter' = 0 /\ nbits' = args.bits_or_duty.v /\ bits' = args.bits_or_duty.v)
          /\ (Tick /\ owned) =>
                /\ counter' = (counter + 1) % Pow2(bits)
                /\ (counter = Pow2(bits) - 1) => (counter' = 0)]_vars

(* An owned counter beside a supplied 3-bit duty signal has wrapped to 0. *)
C6_Witness ==
    Built /\ owned /\ mode = "external" /\ bits = 3 /\ counter = 0 /\ age = AgeCap

(* C7: with a duty signal supplied, construction raises whenever default_duty is
   not 0 and whenever with_csr is true; with default_duty 0 and with_csr false it
   raises neither of the two errors, and a generator so built has no CSR. *)
C7_ExternalDutyValidation ==
    [][(phase = "new" /\ isSignal(args.bits_or_duty)) =>
          /\ args.default_duty # 0 => (phase' = "failed" /\ err' = ErrDefaultDuty)
          /\ args.with_csr => (phase' = "failed" /\ err' \in {ErrDefaultDuty, ErrWithCsr})
          /\ (args.default_duty = 0 /\ ~args.with_csr) => err' \notin {ErrDefaultDuty, ErrWithCsr}
          /\ phase' = "built" =>
                /\ args.default_duty = 0 /\ ~args.with_csr
                /\ mode' = "external" /\ regs' = <<>>]_vars

(* with_csr together with a duty signal was rejected. *)
C7_Witness ==
    /\ phase = "failed" /\ err = ErrWithCsr
    /\ isSignal(args.bits_or_duty) /\ args.with_csr /\ args.default_duty = 0

(* C8: construction raises when the supplied counter is no Signal or is narrower
   than bits, raises neither counter error for a Signal of width >= bits (which is
   then the counter of the generator when the duty arguments are valid), and a
   rejected configuration never takes a step. *)
C8_CounterValidation ==
    [][/\ phase = "new" =>
             LET b == args.bits_or_duty.v
                 dutyOk == ~(isSignal(args.bits_or_duty) /\ (args.default_duty # 0 \/ args.with_csr))
             IN  /\ (args.counter.kind = "int" \/ (isSignal(args.counter) /\ args.counter.v < b))
                       => phase' = "failed"
                 /\ (args.counter.kind = "int" /\ dutyOk) => err' = ErrNotSignal
                 /\ (isSignal(args.counter) /\ args.counter.v < b /\ dutyOk) => err' = ErrNbits
                 /\ (isSignal(args.counter) /\ args.counter.v >= b) =>
                       /\ err' \notin {ErrNotSignal, ErrNbits}
                       /\ dutyOk => (phase' = "built" /\ ~owned' /\ nbits' = args.counter.v)
       /\ phase = "failed" => vars' = vars]_vars

(* A counter one bit narrower than bits was rejected. *)
C8_Witness ==
    /\ phase = "failed" /\ err = ErrNbits
    /\ isSignal(args.counter) /\ args.counter.v = args.bits_or_duty.v - 1

(* C9: with the CSR, the synchronizer has no stage when the bus clock is the
   comparator's clock, so that the comparator reads the register's current value
   in every state; it has 2 stages only when the clocks differ. *)
C9_DepthFollowsDomain ==
    (Built /\ mode = "csr") =>
       /\ sameDomain => (Len(regs) = 0 /\ DutySignal = storage)
       /\ Len(regs) = 2 => ~sameDomain

(* C10 as claimed: with the CSR in another clock domain (2 stages), a write made
   once the previous value had propagated leaves the comparator reading the old
   value after one clock edge, and from the 2nd edge after the write on the
   comparator reads the new value. *)
C10_SettlesWithinStageCount ==
    (Built /\ mode = "csr" /\ ~sameDomain /\ Len(regs) = 2) =>
       /\ (age = 1 /\ old # -1) => DutySignal = old
       /\ age >= Len(regs) => DutySignal = storage

(* C10 as amended: the same, but the comparator reads the new value from the
   edge numbered stage_count + 1 after the write on (stage_count edges after the
   first edge that captures the new value whole). *)
C10_SettlesWithinStageCountPlusOne ==
    (Built /\ mode = "csr" /\ ~sameDomain /\ Len(regs) = 2) =>
       /\ (age = 1 /\ old # -1) => DutySignal = old
       /\ age >= Len(regs) + 1 => DutySignal = storage

(* Two edges after a write the comparator reads neither the old nor the new value. *)
C10_Witness ==
    /\ Built /\ mode = "csr" /\ ~sameDomain /\ age = 2
    /\ storage = 2 /\ regs = <<2, 3>>

(* C11: with the CSR, default_duty = d and no write ever made to the register, the
   comparator reads d at every clock edge from reset on (as it would from a
   direct duty register of reset value d). *)
C11_DefaultDutyFromReset ==
    (Built /\ mode = "csr" /\ held = {storage}) => DutySignal = storage

(* The three facets: the counter the generator owns, the duty register written
   directly, the duty behind the CSR. *)
InternalCounter == owned
DirectDuty == mode = "direct"
CsrDuty == mode = "csr"

(* C12 as claimed: in every accepted configuration exactly one of the three facets
   is active. *)
C12_ExactlyOneFacet ==
    Built => Cardinality({f \in {"counter", "direct", "csr"} :
                            \/ f = "counter" /\ InternalCounter
                            \/ f = "direct" /\ DirectDuty
                            \/ f = "csr" /\ CsrDuty}) = 1

(* C12 as amended: in every accepted configuration the duty has exactly one source:
   the supplied signal (bits_or_duty a Signal), the register written directly (an
   int, with_csr false) or the CSR (an int, with_csr true), the last two never
   together; the owned counter is active exactly when no counter is supplied,
   whatever the source of the duty. *)
C12_OneDutySource ==
    /\ [](Built => /\ mode \in {"external", "direct", "csr"}
                   /\ ~(DirectDuty /\ CsrDuty)
                   /\ ~CsrDuty => regs = <<>>)
    /\ [][(phase = "new" /\ phase' = "built") =>
             /\ mode' = "external" <=> isSignal(args.bits_or_duty)
             /\ CsrDuty' <=> (~isSignal(args.bits_or_duty) /\ args.with_csr)
             /\ DirectDuty' <=> (~isSignal(args.bits_or_duty) /\ ~args.with_csr)
             /\ InternalCounter' <=> (args.counter = None)]_vars

(* The default kind of configuration: an owned counter beside a duty register
   written directly, two facets at once. *)
C12_Witness ==
    Built /\ InternalCounter /\ DirectDuty /\ ~CsrDuty /\ age = 0 /\ win = <<0>>

(* C13: no clock edge of the generator changes a supplied counter; its value
   changes only when its owner drives it. *)
C13_SuppliedCounterOnlyRead ==
    [][(Built /\ ~owned) =>
          /\ Tick => counter' = counter
          /\ counter' # counter => (ExtCounter /\ ~Tick)]_vars

(* A supplied counter still at the value its owner gave it after clock edges that
   asserted out. *)
C13_Witness ==
    Built /\ ~owned /\ nbits = bits /\ counter = 2 /\ out = 1 /\ age = AgeCap /\ mode = "direct"

(* C14: a clock edge updates counter and out together from the values before the
   edge: out becomes (bitreverse(c, bits) < d) for the counter c and the duty d
   before the edge, so out lags the counter by exactly one edge; out is 0 at reset. *)
C14_OutputLagsCounter ==
    /\ []((Built /\ owned /\ Len(win) >= 2) =>
             out = (IF BitReverse((counter - 1) % Pow2(bits), bits) < duty THEN 1 ELSE 0))
    /\ [][/\ (phase = "new" /\ phase' = "built") => (out' = 0 /\ counter' = 0)
          /\ Tick =>
                /\ out' = (IF BitReverse(counter % Pow2(bits), bits) < DutySignal
                           THEN 1 ELSE 0)
                /\ owned => counter' = (counter + 1) % Pow2(bits)]_vars

(* After the first clock edge the counter is 1 and out is the comparison for 0. *)
C14_Witness ==
    /\ Built /\ owned /\ mode = "direct" /\ bits = 2 /\ duty = 1
    /\ counter = 1 /\ out = 1 /\ win = <<0, 1>>

(* C15: with a supplied counter wider than bits, out depends only on the low bits
   bits of the counter: counter values that agree on them give, for any duty, the
   same output, the one of a bits-wide counter holding those low bits. *)
C15_OnlyLowBits ==
    /\ [](Built => \A c \in Range(nbits) :
                      Output(c, DutySignal, bits, nbits)
                         = Output(c % Pow2(bits), DutySignal, bits, bits))
    /\ [][Tick => out' = Output(counter % Pow2(bits), DutySignal, bits, bits)]_vars

(* A supplied 3-bit counter beside a 2-bit duty, its high bit set, low bits 0. *)
C15_Witness ==
    /\ Built /\ ~owned /\ bits = 2 /\ nbits = 3 /\ counter = 4
    /\ DutySignal = 1 /\ out = 1 /\ age = 1

(* C16: for every duty d, every k in 0..bits and every aligned block of 2^k counter
   values (those sharing their upper bits-k bits), the number of counter values
   of the block with output 1 is floor(d*2^k/2^bits) or ceil(d*2^k/2^bits); for
   d <= 2^(bits-1), out is never asserted for two consecutive counter values. *)
C16_EvenlySpread ==
    Built =>
       LET d == DutySignal
           ones(S) == Cardinality({c \in S : Output(c, d, bits, nbits) = 1})
       IN  /\ \A k \in 0 .. bits : \A u \in Range(bits - k) :
                 ones({c \in Range(bits) : c \div Pow2(k) = u})
                    \in {(d * Pow2(k)) \div Pow2(bits),
                         (d * Pow2(k) + Pow2(bits) - 1) \div Pow2(bits)}
           /\ d <= Pow2(bits - 1) =>
                 /\ \A c \in Range(bits) :
                       ~(/\ Output(c, d, bits, nbits) = 1
                         /\ Output((c + 1) % Pow2(bits), d, bits, nbits) = 1)
                 /\ \A i \in 1 .. (Len(win) - 1) : ~(win[i] = 1 /\ win[i + 1] = 1)

(* A period of a 3-bit generator of duty 4: out alternates. *)
C16_Witness ==
    Built /\ bits = 3 /\ duty = 4 /\ win = <<1, 0, 1, 0, 1, 0, 1, 0>>

(* C17: with the CSR, under any interleaving of register writes and comparator
   clock edges, the duty the comparator reads is the reset value of the
   synchronizer or a whole value the register has held; never a mixture of the
   bits of two values. *)
C17_NeverTorn ==
    (Built /\ mode = "csr") => DutySignal \in held \cup {MultiRegReset[i] : i \in 1 .. n}

====
